---- MODULE Spec2Model ----
(***************************************************************************)
(* Model of the clinical-assessment API of src/main.py: registration and   *)
(* login with session tokens, the /predict scoring pipeline, the two       *)
(* assessment listings and doctor feedback, over a document store with     *)
(* five collections (patient, doctor, session, assessment, feedback).      *)
(*                                                                         *)
(* Spec      : every handler is one atomic step (one server process: the   *)
(*             handlers are coroutines that never await).                  *)
(* ConcSpec  : register requests served by several processes on the same   *)
(*             store, one step per store call.                             *)
(* ScoreSpec : /predict on a grid of feature vectors, values outside       *)
(*             [0,1] included, scored in IEEE-754 double arithmetic.       *)
(***************************************************************************)
EXTENDS Integers, Sequences, FiniteSets, TLC

VARIABLES
  patient,      \* collection "patient": sequence of user documents
  doctor,       \* collection "doctor": sequence of user documents
  session,      \* collection "session"
  assessment,   \* collection "assessment"
  feedback,     \* collection "feedback"
  resp,         \* the last request served and its response
  issued,       \* every (token, user_id, role) a register or login returned
  registered,   \* every (role, email) a register succeeded for
  reqs          \* ConcSpec: the register request each process is serving

store == <<patient, doctor, session, assessment, feedback>>
history == <<issued, registered>>
vars == <<patient, doctor, session, assessment, feedback, resp, issued, registered,
          reqs>>

----------------------------------------------------------------------------
(* Bounds of the model *)

MaxUsers == 2         \* user documents, both collections together
MaxSessions == 3      \* session documents
MaxAssessments == 2   \* assessment documents
MaxFeedback == 1      \* feedback documents
MaxDocs == 7          \* documents in the store, all collections together
NumProcs == 2         \* ConcSpec: server processes

----------------------------------------------------------------------------
(* Values *)

\* Python's None; every string of the model differs from it.
None == "<None>"

\* Python truthiness of an Optional[str]: None and "" are falsy.
Truthy(x) == x # None /\ x # ""

\* The people who register, each with one name, email and password; a login
\* may present any email with any password.
People ==
  {[name |-> "Ann", email |-> "a@x.org", password |-> "pw1"],
   [name |-> "Bob", email |-> "b@x.org", password |-> "pw2"]}
Emails == {"a@x.org", "b@x.org"}
Passwords == {"pw1", "pw2"}
RoleInputs == {"patient", "DOCTOR", "nurse"}

\* The cased letters of the role strings (string.ascii_uppercase and
\* string.ascii_lowercase): the i-th of one is the i-th of the other in
\* the other case.
ascii_uppercase == "ABCDEFGHIJKLMNOPQRSTUVWXYZ"
ascii_lowercase == "abcdefghijklmnopqrstuvwxyz"

\* One character in lower case: an upper-case letter becomes its
\* lower-case letter, every other character stays.
LowerChar(c) ==
  LET at == {i \in 1..Len(ascii_uppercase) : SubSeq(ascii_uppercase, i, i) = c}
  IN IF at = {} THEN c
     ELSE LET i == CHOOSE j \in at : TRUE IN SubSeq(ascii_lowercase, i, i)

\* str.lower(): the string with every character in lower case.
RECURSIVE LowerFrom(_, _)
LowerFrom(s, i) ==
  IF i > Len(s) THEN "" ELSE LowerChar(SubSeq(s, i, i)) \o LowerFrom(s, i + 1)

\* str.lower() on the role strings of the requests, worked out once.
Lowered == [r \in RoleInputs |-> LowerFrom(r, 1)]

Lower(s) == IF s \in RoleInputs THEN Lowered[s] ELSE LowerFrom(s, 1)

----------------------------------------------------------------------------
(* Natural numbers of any size: limbs in base 2^15, least significant      *)
(* first, no leading zero limb (<<>> is 0). They carry the 53-bit          *)
(* significands of Python floats and their exact products and sums.        *)

LimbBits == 15
Base == 32768

RECURSIVE BNorm(_)
BNorm(a) ==
  IF a = <<>> THEN a
  ELSE IF a[Len(a)] = 0 THEN BNorm(SubSeq(a, 1, Len(a) - 1)) ELSE a

RECURSIVE BFromInt(_)
BFromInt(n) == IF n = 0 THEN <<>> ELSE <<n % Base>> \o BFromInt(n \div Base)

RECURSIVE BAddC(_, _, _)
BAddC(a, b, c) ==
  IF a = <<>> /\ b = <<>> THEN (IF c = 0 THEN <<>> ELSE <<c>>)
  ELSE LET x == (IF a = <<>> THEN 0 ELSE Head(a))
                + (IF b = <<>> THEN 0 ELSE Head(b)) + c
       IN <<x % Base>> \o BAddC(IF a = <<>> THEN a ELSE Tail(a),
                                IF b = <<>> THEN b ELSE Tail(b), x \div Base)

BAdd(a, b) == BAddC(a, b, 0)

\* a - b for a >= b
RECURSIVE BSubB(_, _, _)
BSubB(a, b, borrow) ==
  IF a = <<>> THEN <<>>
  ELSE LET x == Head(a) - (IF b = <<>> THEN 0 ELSE Head(b)) - borrow
       IN <<x % Base>> \o BSubB(Tail(a), IF b = <<>> THEN b ELSE Tail(b),
                                IF x < 0 THEN 1 ELSE 0)

BSub(a, b) == BNorm(BSubB(a, b, 0))

\* -1, 0, 1 as a < b, a = b, a > b
RECURSIVE BCmpFrom(_, _, _)
BCmpFrom(a, b, i) ==
  IF i = 0 THEN 0
  ELSE IF a[i] < b[i] THEN -1
  ELSE IF a[i] > b[i] THEN 1
  ELSE BCmpFrom(a, b, i - 1)

BCmp(a, b) ==
  IF Len(a) < Len(b) THEN -1
  ELSE IF Len(a) > Len(b) THEN 1
  ELSE BCmpFrom(a, b, Len(a))

\* a * k + c for 0 <= k, c < Base
RECURSIVE BMulSmall(_, _, _)
BMulSmall(a, k, c) ==
  IF a = <<>> THEN (IF c = 0 THEN <<>> ELSE <<c>>)
  ELSE LET x == Head(a) * k + c
       IN <<x % Base>> \o BMulSmall(Tail(a), k, x \div Base)

\* a * Base^n
RECURSIVE BShiftLimbs(_, _)
BShiftLimbs(a, n) ==
  IF a = <<>> \/ n = 0 THEN a ELSE <<0>> \o BShiftLimbs(a, n - 1)

RECURSIVE BMul(_, _)
BMul(a, b) ==
  IF a = <<>> \/ b = <<>> THEN <<>>
  ELSE BAdd(BMulSmall(a, Head(b), 0), BShiftLimbs(BMul(a, Tail(b)), 1))

\* quotient and remainder of a by d, 0 < d < Base
RECURSIVE BDivRec(_, _)
BDivRec(a, d) ==
  IF a = <<>> THEN [q |-> <<>>, r |-> 0]
  ELSE LET hi == BDivRec(Tail(a), d)
           cur == hi.r * Base + Head(a)
       IN [q |-> <<cur \div d>> \o hi.q, r |-> cur % d]

BDivSmall(a, d) ==
  LET qr == BDivRec(a, d) IN [q |-> BNorm(qr.q), r |-> qr.r]

\* a * 2^k
BShl(a, k) ==
  BShiftLimbs(BNorm(BMulSmall(a, 2 ^ (k % LimbBits), 0)), k \div LimbBits)

\* floor(a / 2^k)
BShr(a, k) ==
  LET n == k \div LimbBits
  IN IF n >= Len(a) THEN <<>>
     ELSE BDivSmall(SubSeq(a, n + 1, Len(a)), 2 ^ (k % LimbBits)).q

RECURSIVE IntBitLen(_)
IntBitLen(n) == IF n = 0 THEN 0 ELSE 1 + IntBitLen(n \div 2)

BBitLen(a) ==
  IF a = <<>> THEN 0 ELSE LimbBits * (Len(a) - 1) + IntBitLen(a[Len(a)])

BOdd(a) == a # <<>> /\ a[1] % 2 = 1

\* bit i of a (bit 0 is the least significant)
BBit(a, i) == BOdd(BShr(a, i))

\* the low k bits of a are all zero
BLowZero(a, k) == BShl(BShr(a, k), k) = a

----------------------------------------------------------------------------
(* Python floats (IEEE 754 binary64). A finite value is sign s,            *)
(* significand m and exponent e, standing for (-1)^s * m * 2^e: m has      *)
(* exactly 53 bits and EMin <= e <= EMax (normal), or fewer than 53 bits   *)
(* and e = EMin (subnormal), or m = 0 and e = 0 (a zero). As in the        *)
(* binary64 encoding, the exponent above EMax holds the infinities         *)
(* (m = 0) and NaN (m # 0). Every operation rounds its exact result to     *)
(* the nearest finite value, ties to the even significand, underflows      *)
(* gradually to the subnormals and to zero, and overflows to infinity.     *)

SigBits == 53

\* Exponents of the least significant bit: of the subnormals (2^-1074 is
\* the smallest positive float) and of the largest finite floats.
EMin == -1074
EMax == 971

FZero(s) == [s |-> s, m |-> <<>>, e |-> 0]

FInf(s) == [s |-> s, m |-> <<>>, e |-> EMax + 1]

FNaN == [s |-> 0, m |-> <<1>>, e |-> EMax + 1]

FIsNaN(a) == a.e = EMax + 1 /\ a.m # <<>>

FIsInf(a) == a.e = EMax + 1 /\ a.m = <<>>

FIsZero(a) == a.m = <<>> /\ a.e = 0

\* (-1)^s * m * 2^e for a rounded significand m, infinite when too large.
FPack(s, m, e) == IF e > EMax THEN FInf(s) ELSE [s |-> s, m |-> m, e |-> e]

\* The float nearest to (-1)^s * (n + f) * 2^e, where 0 <= f < 1 and
\* sticky says f > 0 (then n has more than 53 bits).
FRound(s, n, e, sticky) ==
  IF n = <<>> THEN FZero(s)
  ELSE LET len == BBitLen(n)
           lsb == IF e + len - SigBits < EMin THEN EMin
                  ELSE e + len - SigBits
       IN
    IF lsb <= e
    THEN FPack(s, BShl(n, e - lsb), lsb)
    ELSE LET k == lsb - e
             q == BShr(n, k)
             half == BBit(n, k - 1)
             rest == sticky \/ ~BLowZero(n, k - 1)
             up == half /\ (rest \/ BOdd(q))
             q2 == IF up THEN BAdd(q, <<1>>) ELSE q
         IN IF q2 = <<>> THEN FZero(s)
            ELSE IF BBitLen(q2) > SigBits
            THEN FPack(s, BShr(q2, 1), lsb + 1)
            ELSE FPack(s, q2, lsb)

\* A decimal literal num/den (0 < den < Base) as Python reads it.
FromDecimal(s, num, den) ==
  LET qr == BDivSmall(BShl(BFromInt(num), 80), den)
  IN FRound(s, qr.q, -80, qr.r # 0)

\* a * b
FMul(a, b) ==
  IF FIsNaN(a) \/ FIsNaN(b) THEN FNaN
  ELSE IF FIsInf(a) \/ FIsInf(b)
  THEN (IF FIsZero(a) \/ FIsZero(b) THEN FNaN ELSE FInf((a.s + b.s) % 2))
  ELSE FRound((a.s + b.s) % 2, BMul(a.m, b.m), a.e + b.e, FALSE)

\* An exponent gap beyond which the smaller term of a sum lies below a
\* quarter of the last place of the larger, and only its presence counts.
FarApart == 64

\* a + b
FAdd(a, b) ==
  IF FIsNaN(a) \/ FIsNaN(b) THEN FNaN
  ELSE IF FIsInf(a) /\ FIsInf(b) THEN (IF a.s = b.s THEN a ELSE FNaN)
  ELSE IF FIsInf(a) THEN a
  ELSE IF FIsInf(b) THEN b
  ELSE IF FIsZero(a) /\ FIsZero(b)
  THEN FZero(IF a.s = 1 /\ b.s = 1 THEN 1 ELSE 0)
  ELSE IF FIsZero(a) THEN b
  ELSE IF FIsZero(b) THEN a
  ELSE LET far == a.e - b.e > FarApart \/ b.e - a.e > FarApart
           emin == IF far
                   THEN (IF a.e > b.e THEN a.e ELSE b.e) - FarApart
                   ELSE IF a.e < b.e THEN a.e ELSE b.e
           x == IF a.e >= emin THEN BShl(a.m, a.e - emin) ELSE <<1>>
           y == IF b.e >= emin THEN BShl(b.m, b.e - emin) ELSE <<1>>
           c == BCmp(x, y)
       IN IF a.s = b.s THEN FRound(a.s, BAdd(x, y), emin, FALSE)
          ELSE IF c = 0 THEN FZero(0)
          ELSE IF c > 0 THEN FRound(a.s, BSub(x, y), emin, FALSE)
          ELSE FRound(b.s, BSub(y, x), emin, FALSE)

\* |a| < |b|, neither a NaN
FMagLt(a, b) ==
  IF FIsZero(b) THEN FALSE
  ELSE IF FIsZero(a) THEN TRUE
  ELSE a.e < b.e \/ (a.e = b.e /\ BCmp(a.m, b.m) < 0)

\* a < b (false when either is a NaN)
FLt(a, b) ==
  IF FIsNaN(a) \/ FIsNaN(b) THEN FALSE
  ELSE IF FIsZero(a) /\ FIsZero(b) THEN FALSE
  ELSE IF a.s = 1 /\ b.s = 0 THEN TRUE
  ELSE IF a.s = 0 /\ b.s = 1 THEN FALSE
  ELSE IF a.s = 0 THEN FMagLt(a, b)
  ELSE FMagLt(b, a)

\* a == b (the two zeros are equal, a NaN equals nothing)
FEq(a, b) ==
  ~FIsNaN(a) /\ ~FIsNaN(b) /\ ~FLt(a, b) /\ ~FLt(b, a)

\* Python's min(a, b) and max(a, b): the first argument unless the second
\* is smaller (larger).
py_min(a, b) == IF FLt(b, a) THEN b ELSE a
py_max(a, b) == IF FLt(a, b) THEN b ELSE a

----------------------------------------------------------------------------
(* Utilities *)

\* hashlib.sha256(password.encode()).hexdigest(): a deterministic digest,
\* distinct for distinct passwords, and never the plaintext itself.
hash_password(password) == <<"sha256", password>>

\* verify_password that accepts any password once a digest is stored.
verify_password_AnyPassword(password, password_hash) == password_hash # ""

verify_password(password, password_hash) ==
  <<"sha256", password>> = password_hash

----------------------------------------------------------------------------
(* Document store gateway (the database module) *)

\* The store-assigned identifier of the n-th document of a collection:
\* opaque, and different from every other identifier of the store.
ObjectId(collection, n) == collection \o "-" \o ToString(n)

\* create_document(collection, document): the collection with the document
\* added under a fresh identifier, which is returned.
NewId(collection, coll) == ObjectId(collection, Len(coll) + 1)

create_document(collection, coll, doc) ==
  Append(coll, [_id |-> NewId(collection, coll)] @@ doc)

Matches(doc, filter) == \A k \in DOMAIN filter : doc[k] = filter[k]

\* get_documents(collection, filter, limit): the documents equal to the
\* filter on each of its fields, at most `limit` of them (0: no limit).
get_documents(coll, filter, limit) ==
  LET Hit(d) == Matches(d, filter)
      found == SelectSeq(coll, Hit)
  IN IF limit > 0 /\ Len(found) > limit THEN SubSeq(found, 1, limit) ELSE found

NoFilter == [k \in {} |-> None]

\* The store has room for k more documents.
Room(k) ==
  Len(patient) + Len(doctor) + Len(session) + Len(assessment) + Len(feedback) + k
    <= MaxDocs

----------------------------------------------------------------------------
(* Sessions and users *)

\* secrets.token_urlsafe(24): 192 random bits; the n-th draw differs from
\* every earlier one.
token_urlsafe(n) == "tok" \o ToString(n)

SessionDoc(user_id, role, token) ==
  [user_id |-> user_id, role |-> role, token |-> token]

\* The token create_session draws, one per session ever created.
NewToken(sess) == token_urlsafe(Len(sess) + 1)

\* create_session that keeps one session per user: the new one replaces
\* the user's earlier sessions.
create_session_SingleSession(sess, user_id, role) ==
  LET Other(d) == d.user_id # user_id
  IN create_document("session", SelectSeq(sess, Other),
                     SessionDoc(user_id, role, NewToken(sess)))

\* create_session whose token is derived from the user instead of drawn.
create_session_TokenPerUser(sess, user_id, role) ==
  create_document("session", sess, SessionDoc(user_id, role, "tok-" \o user_id))

\* create_session: the session collection after the new session is stored.
create_session(sess, user_id, role) ==
  create_document("session", sess, SessionDoc(user_id, role, NewToken(sess)))

\* The token create_session returns: the one it has just stored.
created_token(sess) == sess[Len(sess)].token

\* Python's None where a document is expected.
NoDoc == [_id |-> None]

\* coll = "patient" if role == "patient" else "doctor"
UserColl(role, pat, doc) == IF role = "patient" THEN pat ELSE doc

\* get_user_by_email that looks the email up among the users of both roles.
get_user_by_email_AnyRole(role, email, pat, doc) ==
  LET users == get_documents(pat \o doc, [email |-> email], 1)
  IN IF Len(users) > 0 THEN users[1] ELSE NoDoc

\* get_user_by_email with the condition on the role inverted: it looks in
\* the collection of the other role.
get_user_by_email_OtherColl(role, email, pat, doc) ==
  LET users == get_documents(IF role = "patient" THEN doc ELSE pat, [email |-> email], 1)
  IN IF Len(users) > 0 THEN users[1] ELSE NoDoc

\* get_user_by_email: users[0] if users else None
get_user_by_email(role, email, pat, doc) ==
  LET users == get_documents(UserColl(role, pat, doc), [email |-> email], 1)
  IN IF Len(users) > 0 THEN users[1] ELSE NoDoc

PatientDoc(name, email, password_hash) ==
  [name |-> name, email |-> email, password_hash |-> password_hash,
   age |-> None, gender |-> None]

DoctorDoc(name, email, password_hash) ==
  [name |-> name, email |-> email, password_hash |-> password_hash,
   specialty |-> None, hospital |-> None]

NoBody == [k \in {} |-> None]

Response(op, status, req, body) ==
  [op |-> op, status |-> status, req |-> req, body |-> body]

\* No response is on its way: the server takes the next request.
NoResponse == Response("none", 0, NoBody, NoBody)

Ready == resp = NoResponse

----------------------------------------------------------------------------
(* POST /auth/register *)

\* The role check that lets every role through.
valid_role_Any(role) == TRUE

\* role in ("patient", "doctor")
valid_role(role) == role \in {"patient", "doctor"}

RegisterReq(role, name, email, password) ==
  [role |-> role, name |-> name, email |-> email, password |-> password]

\* The user collections after the user document is stored.
RegisterPatients(role, name, email, password, pat) ==
  IF role = "patient"
  THEN create_document("patient", pat, PatientDoc(name, email, hash_password(password)))
  ELSE pat

RegisterDoctors(role, name, email, password, doc) ==
  IF role = "patient"
  THEN doc
  ELSE create_document("doctor", doc, DoctorDoc(name, email, hash_password(password)))

RegisterUserId(role, pat, doc) ==
  IF role = "patient" THEN NewId("patient", pat) ELSE NewId("doctor", doc)

register(role_in, name, email, password) ==
  LET role == Lower(role_in)
      req == RegisterReq(role_in, name, email, password)
      user_id == RegisterUserId(role, patient, doctor)
  IN
  IF ~valid_role(role) THEN
    /\ resp' = Response("register", 400, req, NoBody)
    /\ UNCHANGED <<store, history>>
  ELSE IF get_user_by_email(role, email, patient, doctor) # NoDoc THEN
    /\ resp' = Response("register", 409, req, NoBody)
    /\ UNCHANGED <<store, history>>
  ELSE
    /\ Len(patient) + Len(doctor) < MaxUsers
    /\ Len(session) < MaxSessions
    /\ Room(2)
    /\ patient' = RegisterPatients(role, name, email, password, patient)
    /\ doctor' = RegisterDoctors(role, name, email, password, doctor)
    /\ session' = create_session(session, user_id, role)
    /\ resp' = Response("register", 200, req,
                 [token |-> created_token(session'), role |-> role,
                  user_id |-> user_id, name |-> name, email |-> email])
    /\ issued' = issued \cup {SessionDoc(user_id, role, resp'.body.token)}
    /\ registered' = registered \cup {<<role, email>>}
    /\ UNCHANGED <<assessment, feedback>>

Register ==
  \E role_in \in RoleInputs, person \in People :
    /\ Ready
    /\ register(role_in, person.name, person.email, person.password)
    /\ UNCHANGED reqs

----------------------------------------------------------------------------
(* POST /auth/login *)

LoginReq(role, email, password) ==
  [role |-> role, email |-> email, password |-> password]

login(role_in, email, password) ==
  LET role == Lower(role_in)
      req == LoginReq(role_in, email, password)
      user == get_user_by_email(role, email, patient, doctor)
  IN
  IF ~valid_role(role) THEN
    /\ resp' = Response("login", 400, req, NoBody)
    /\ UNCHANGED <<store, history>>
  ELSE IF user = NoDoc \/ ~verify_password(password, user.password_hash) THEN
    /\ resp' = Response("login", 401, req, NoBody)
    /\ UNCHANGED <<store, history>>
  ELSE
    /\ Len(session) < MaxSessions
    /\ Room(1)
    /\ session' = create_session(session, user._id, role)
    /\ resp' = Response("login", 200, req,
                 [token |-> created_token(session'), role |-> role,
                  user_id |-> user._id, name |-> user.name, email |-> user.email])
    /\ issued' = issued \cup {SessionDoc(user._id, role, resp'.body.token)}
    /\ UNCHANGED <<patient, doctor, assessment, feedback, registered>>

Login ==
  \E role_in \in RoleInputs, email \in Emails, password \in Passwords :
    /\ Ready
    /\ login(role_in, email, password)
    /\ UNCHANGED reqs

----------------------------------------------------------------------------
(* Risk scoring: the weighted sum of /predict *)

\* The keys of the weights dictionary, in its (insertion) order.
FeatureKeys == <<"eye_contact", "speech_delay", "repetitive_behavior",
                 "sensory_sensitivity", "social_interaction_difficulty">>

weights ==
  [eye_contact |-> FromDecimal(0, 18, 100),
   speech_delay |-> FromDecimal(0, 22, 100),
   repetitive_behavior |-> FromDecimal(0, 22, 100),
   sensory_sensitivity |-> FromDecimal(0, 2, 10),
   social_interaction_difficulty |-> FromDecimal(0, 18, 100)]

F0 == FromDecimal(0, 0, 1)
F1 == FromDecimal(0, 1, 1)
LowBelow == FromDecimal(0, 33, 100)
ModerateBelow == FromDecimal(0, 66, 100)

\* total = 0.0; for k, w in weights.items(): total += getattr(req, k) * w
RECURSIVE weighted_total(_, _, _)
weighted_total(features, i, total) ==
  IF i > Len(FeatureKeys) THEN total
  ELSE weighted_total(features, i + 1,
         FAdd(total, FMul(features[FeatureKeys[i]], weights[FeatureKeys[i]])))

\* probability = max(0.0, min(1.0, total))
clamp(total) == py_max(F0, py_min(F1, total))

probability_of(features) == clamp(weighted_total(features, 1, F0))

\* The labels with the thresholds compared by <= instead of <.
label_of_Inclusive(probability) ==
  IF ~FLt(LowBelow, probability) THEN "Low Risk"
  ELSE IF ~FLt(ModerateBelow, probability) THEN "Moderate Risk"
  ELSE "High Risk"

label_of(probability) ==
  IF FLt(probability, LowBelow) THEN "Low Risk"
  ELSE IF FLt(probability, ModerateBelow) THEN "Moderate Risk"
  ELSE "High Risk"

\* A request's five features.
Features(a, b, c, d, e) ==
  [eye_contact |-> a, speech_delay |-> b, repetitive_behavior |-> c,
   sensory_sensitivity |-> d, social_interaction_difficulty |-> e]

AllFeatures(x) == Features(x, x, x, x, x)

----------------------------------------------------------------------------
(* POST /predict *)

Half == FromDecimal(0, 5, 10)
Quarter == FromDecimal(0, 25, 100)

\* The float k/4.
FromQuarters(k) == FromDecimal(IF k < 0 THEN 1 ELSE 0, IF k < 0 THEN -k ELSE k, 4)

\* Request bodies of Spec: all features 0.5 without notes; features whose
\* exact weighted sum is 0.33, with notes.
PredictBodies ==
  {[features |-> AllFeatures(Half), notes |-> None],
   [features |-> Features(F1, F0, Quarter, Quarter, Quarter), notes |-> "restless"]}

FeatureInputs == {b.features : b \in PredictBodies}

\* Feature vectors of the requests of ScoreSpec: each feature one of
\* -1.0, 0.0, 0.25, 0.5, 1.0, 2.0.
GridQuarters == {-4, 0, 1, 2, 4, 8}
GridValues == {FromQuarters(k) : k \in GridQuarters}

ScoreGrid ==
  {Features(a, b, c, d, e) : a \in GridValues, b \in GridValues, c \in GridValues,
                             d \in GridValues, e \in GridValues}

\* probability_of on the feature vectors of Spec, worked out once.
Scored == [f \in FeatureInputs |-> probability_of(f)]

\* The score when total is not reset to 0.0 for each request: the sum starts
\* from the probability of the assessment stored last.
score_Carry(features) ==
  clamp(weighted_total(features, 1,
          IF assessment = <<>> THEN F0 ELSE assessment[Len(assessment)].probability))

score(features) ==
  IF features \in FeatureInputs THEN Scored[features] ELSE probability_of(features)

PredictReq(token, user_id, features, notes) ==
  [token |-> token, user_id |-> user_id, features |-> features, notes |-> notes]

\* resolve_pid that lets the token's patient session decide when there is one,
\* also when a user_id is given.
resolve_pid_TokenFirst(token, user_id, sess) ==
  IF Truthy(token)
  THEN LET sessions == get_documents(sess, [token |-> token], 1)
       IN IF Len(sessions) > 0 /\ sessions[1].role = "patient"
          THEN sessions[1].user_id
          ELSE user_id
  ELSE user_id

\* resolve_pid that takes the user_id of the token's session whatever its role.
resolve_pid_AnyRole(token, user_id, sess) ==
  IF Truthy(token) /\ ~Truthy(user_id)
  THEN LET sessions == get_documents(sess, [token |-> token], 1)
       IN IF Len(sessions) > 0 THEN sessions[1].user_id ELSE user_id
  ELSE user_id

\* pid = user_id; if token and not pid: the user_id of the token's session,
\* when that session's role is patient.
resolve_pid(token, user_id, sess) ==
  IF Truthy(token) /\ ~Truthy(user_id)
  THEN LET sessions == get_documents(sess, [token |-> token], 1)
       IN IF Len(sessions) > 0 /\ sessions[1].role = "patient"
          THEN sessions[1].user_id
          ELSE user_id
  ELSE user_id

\* patient_id=str(pid) if pid else "unknown"
patient_id_of(pid) == IF Truthy(pid) THEN pid ELSE "unknown"

AssessmentDoc(patient_id, features, probability, label, notes) ==
  [patient_id |-> patient_id, features |-> features, score |-> probability,
   probability |-> probability, result_label |-> label,
   notes |-> IF Truthy(notes) THEN notes ELSE "",
   reviewed_by |-> None, feedback_id |-> None]

\* The check that also refuses a token no session holds.
authentication_required_KnownToken(token, user_id) ==
  \/ ~Truthy(token) /\ ~Truthy(user_id)
  \/ Truthy(token) /\ ~Truthy(user_id)
       /\ get_documents(session, [token |-> token], 1) = <<>>

\* if not token and not user_id: raise HTTPException(401, ...)
authentication_required(token, user_id) == ~Truthy(token) /\ ~Truthy(user_id)

predict(token, user_id, features, notes) ==
  LET req == PredictReq(token, user_id, features, notes)
      probability == score(features)
      label == label_of(probability)
      pid == resolve_pid(token, user_id, session)
  IN
  IF authentication_required(token, user_id) THEN
    /\ resp' = Response("predict", 401, req, [detail |-> "Authentication required"])
    /\ UNCHANGED <<store, history>>
  ELSE
    /\ Len(assessment) < MaxAssessments
    /\ Room(1)
    /\ assessment' = create_document("assessment", assessment,
                       AssessmentDoc(patient_id_of(pid), features, probability, label, notes))
    /\ resp' = Response("predict", 200, req,
                 [assessment_id |-> NewId("assessment", assessment),
                  probability |-> probability, label |-> label])
    /\ UNCHANGED <<patient, doctor, session, feedback, history>>

Tokens(sess) == {sess[i].token : i \in 1..Len(sess)}
UserIds(coll) == {coll[i]._id : i \in 1..Len(coll)}

\* The token of a request: a token some session holds or one none holds.
TokenInputs == Tokens(session) \cup {"bogus"}
UserIdInputs == UserIds(patient) \cup UserIds(doctor) \cup {None, ""}

Predict ==
  \E b \in PredictBodies, token \in TokenInputs \cup {None, ""}, user_id \in UserIdInputs :
    /\ Ready
    /\ predict(token, user_id, b.features, b.notes)
    /\ UNCHANGED reqs

----------------------------------------------------------------------------
(* GET /patient/assessments, GET /doctor/assessments *)

Unauthorized == [detail |-> "Unauthorized"]

\* The check that accepts the session of any role.
unauthorized_AnyRole(sessions, role) == Len(sessions) = 0

\* if not sessions or sessions[0].get("role") != role: raise 401
unauthorized(sessions, role) == Len(sessions) = 0 \/ sessions[1].role # role

\* The listing without its patient_id filter.
patient_items_All(pid) == get_documents(assessment, NoFilter, 0)

\* items = get_documents("assessment", {"patient_id": pid})
patient_items(pid) == get_documents(assessment, [patient_id |-> pid], 0)

patient_assessments(token) ==
  LET sessions == get_documents(session, [token |-> token], 1)
  IN
  /\ IF unauthorized(sessions, "patient")
     THEN resp' = Response("patient_assessments", 401, [token |-> token], Unauthorized)
     ELSE resp' = Response("patient_assessments", 200, [token |-> token],
                    [items |-> patient_items(sessions[1].user_id)])
  /\ UNCHANGED <<store, history>>

PatientAssessments ==
  \E token \in TokenInputs : Ready /\ patient_assessments(token) /\ UNCHANGED reqs

\* The doctor listing that leaves the assessments of unknown patients out.
doctor_assessments_Known(token) ==
  LET sessions == get_documents(session, [token |-> token], 1)
      Known(d) == d.patient_id # "unknown"
  IN
  /\ IF unauthorized(sessions, "doctor")
     THEN resp' = Response("doctor_assessments", 401, [token |-> token], Unauthorized)
     ELSE resp' = Response("doctor_assessments", 200, [token |-> token],
                    [items |-> SelectSeq(assessment, Known)])
  /\ UNCHANGED <<store, history>>

doctor_assessments(token) ==
  LET sessions == get_documents(session, [token |-> token], 1)
  IN
  /\ IF unauthorized(sessions, "doctor")
     THEN resp' = Response("doctor_assessments", 401, [token |-> token], Unauthorized)
     ELSE resp' = Response("doctor_assessments", 200, [token |-> token],
                    [items |-> get_documents(assessment, NoFilter, 0)])
  /\ UNCHANGED <<store, history>>

DoctorAssessments ==
  \E token \in TokenInputs : Ready /\ doctor_assessments(token) /\ UNCHANGED reqs

----------------------------------------------------------------------------
(* POST /doctor/feedback *)

\* Python's None where a list is expected.
NoList == <<None>>

FeedbackReq(token, assessment_id, message, severity, recommendations) ==
  [token |-> token, assessment_id |-> assessment_id, message |-> message,
   severity |-> severity, recommendations |-> recommendations]

\* The feedback document with doctor_id and assessment_id interchanged.
FeedbackDoc_Swapped(doctor_id, assessment_id, message, severity, recommendations) ==
  [doctor_id |-> assessment_id, assessment_id |-> doctor_id, message |-> message,
   severity |-> severity,
   recommendations |-> IF recommendations = NoList \/ recommendations = <<>>
                       THEN <<>> ELSE recommendations]

FeedbackDoc(doctor_id, assessment_id, message, severity, recommendations) ==
  [doctor_id |-> doctor_id, assessment_id |-> assessment_id, message |-> message,
   severity |-> severity,
   recommendations |-> IF recommendations = NoList \/ recommendations = <<>>
                       THEN <<>> ELSE recommendations]

\* doctor_feedback that also links the feedback to its assessment: it sets
\* the assessment's reviewed_by and feedback_id.
doctor_feedback_Linking(token, assessment_id, message, severity, recommendations) ==
  LET req == FeedbackReq(token, assessment_id, message, severity, recommendations)
      sessions == get_documents(session, [token |-> token], 1)
  IN
  IF unauthorized(sessions, "doctor") THEN
    /\ resp' = Response("doctor_feedback", 401, req, Unauthorized)
    /\ UNCHANGED <<store, history>>
  ELSE
    /\ Len(feedback) < MaxFeedback
    /\ Room(1)
    /\ feedback' = create_document("feedback", feedback,
                     FeedbackDoc(sessions[1].user_id, assessment_id, message,
                                 severity, recommendations))
    /\ assessment' = [i \in 1..Len(assessment) |->
                       IF assessment[i]._id = assessment_id
                       THEN [assessment[i] EXCEPT !.reviewed_by = sessions[1].user_id,
                                                  !.feedback_id = NewId("feedback", feedback)]
                       ELSE assessment[i]]
    /\ resp' = Response("doctor_feedback", 200, req,
                 [feedback_id |-> NewId("feedback", feedback)])
    /\ UNCHANGED <<patient, doctor, session, history>>

doctor_feedback(token, assessment_id, message, severity, recommendations) ==
  LET req == FeedbackReq(token, assessment_id, message, severity, recommendations)
      sessions == get_documents(session, [token |-> token], 1)
  IN
  IF unauthorized(sessions, "doctor") THEN
    /\ resp' = Response("doctor_feedback", 401, req, Unauthorized)
    /\ UNCHANGED <<store, history>>
  ELSE
    /\ Len(feedback) < MaxFeedback
    /\ Room(1)
    /\ feedback' = create_document("feedback", feedback,
                     FeedbackDoc(sessions[1].user_id, assessment_id, message,
                                 severity, recommendations))
    /\ resp' = Response("doctor_feedback", 200, req,
                 [feedback_id |-> NewId("feedback", feedback)])
    /\ UNCHANGED <<patient, doctor, session, assessment, history>>

\* Assessment ids of a request: the first assessment's, stored or not yet,
\* and one that no assessment ever gets.
AssessmentIdInputs == {ObjectId("assessment", 1), "assessment-x"}
FeedbackBodies ==
  {[message |-> "follow up", severity |-> None, recommendations |-> NoList]}

DoctorFeedback ==
  \E token \in TokenInputs, assessment_id \in AssessmentIdInputs, b \in FeedbackBodies :
    /\ Ready
    /\ doctor_feedback(token, assessment_id, b.message, b.severity, b.recommendations)
    /\ UNCHANGED reqs

----------------------------------------------------------------------------
(* Spec: one server process; each handler runs from its first line to its  *)
(* return without interleaving (the handlers are coroutines with no await). *)

Idle == [pc |-> "idle"]

Procs == 1..NumProcs

Init ==
  /\ patient = <<>>
  /\ doctor = <<>>
  /\ session = <<>>
  /\ assessment = <<>>
  /\ feedback = <<>>
  /\ resp = NoResponse
  /\ issued = {}
  /\ registered = {}
  /\ reqs = [p \in Procs |-> Idle]

\* The response is sent to the client.
Return ==
  /\ ~Ready
  /\ resp' = NoResponse
  /\ UNCHANGED <<store, history, reqs>>

Next ==
  \/ Return
  \/ Register
  \/ Login
  \/ Predict
  \/ PatientAssessments
  \/ DoctorAssessments
  \/ DoctorFeedback

Spec == Init /\ [][Next]_vars

----------------------------------------------------------------------------
(* FailSpec: Spec with a store whose writes can fail. A failing            *)
(* create_document raises; no handler catches it, so the request ends      *)
(* there with a server error and the writes made before it stay.           *)

StorageError == 500

\* register whose first or second write fails (lines 91-99).
register_write_fails(role_in, name, email, password, failing) ==
  LET role == Lower(role_in)
      req == RegisterReq(role_in, name, email, password)
  IN
  /\ valid_role(role)
  /\ get_user_by_email(role, email, patient, doctor) = NoDoc
  /\ resp' = Response("register", StorageError, req, NoBody)
  /\ IF failing = "user"
     THEN UNCHANGED <<store, history>>
     ELSE /\ Len(patient) + Len(doctor) < MaxUsers
          /\ Room(1)
          /\ patient' = RegisterPatients(role, name, email, password, patient)
          /\ doctor' = RegisterDoctors(role, name, email, password, doctor)
          /\ UNCHANGED <<session, assessment, feedback, history>>

RegisterFails ==
  \E role_in \in RoleInputs, person \in People, failing \in {"user", "session"} :
    /\ Ready
    /\ register_write_fails(role_in, person.name, person.email, person.password, failing)
    /\ UNCHANGED reqs

\* login whose session write fails (line 112).
login_write_fails(role_in, email, password) ==
  LET role == Lower(role_in)
      user == get_user_by_email(role, email, patient, doctor)
  IN
  /\ valid_role(role)
  /\ user # NoDoc
  /\ verify_password(password, user.password_hash)
  /\ resp' = Response("login", StorageError, LoginReq(role_in, email, password), NoBody)
  /\ UNCHANGED <<store, history>>

LoginFails ==
  \E role_in \in RoleInputs, email \in Emails, password \in Passwords :
    /\ Ready
    /\ login_write_fails(role_in, email, password)
    /\ UNCHANGED reqs

\* /predict whose assessment write fails (line 166).
predict_write_fails(token, user_id, features, notes) ==
  /\ ~authentication_required(token, user_id)
  /\ resp' = Response("predict", StorageError,
               PredictReq(token, user_id, features, notes), NoBody)
  /\ UNCHANGED <<store, history>>

PredictFails ==
  \E b \in PredictBodies, token \in TokenInputs \cup {None, ""}, user_id \in UserIdInputs :
    /\ Ready
    /\ predict_write_fails(token, user_id, b.features, b.notes)
    /\ UNCHANGED reqs

\* /doctor/feedback whose feedback write fails (line 208).
feedback_write_fails(token, assessment_id, message, severity, recommendations) ==
  /\ ~unauthorized(get_documents(session, [token |-> token], 1), "doctor")
  /\ resp' = Response("doctor_feedback", StorageError,
               FeedbackReq(token, assessment_id, message, severity, recommendations),
               NoBody)
  /\ UNCHANGED <<store, history>>

FeedbackFails ==
  \E token \in TokenInputs, assessment_id \in AssessmentIdInputs, b \in FeedbackBodies :
    /\ Ready
    /\ feedback_write_fails(token, assessment_id, b.message, b.severity, b.recommendations)
    /\ UNCHANGED reqs

FailNext ==
  \/ Next
  \/ RegisterFails
  \/ LoginFails
  \/ PredictFails
  \/ FeedbackFails

FailSpec == Init /\ [][FailNext]_vars

----------------------------------------------------------------------------
(* ConcSpec: register served by NumProcs server processes on one store.    *)
(* Each store call of the handler is one step; between two of them the     *)
(* other processes run.                                                    *)

RegState(pc, role, person, user_id, status, token) ==
  [pc |-> pc, role |-> role, name |-> person.name, email |-> person.email,
   password |-> person.password, user_id |-> user_id, status |-> status,
   token |-> token]

\* The request arrives; the role is validated (lines 84-86).
RegStart(p) ==
  \E role_in \in RoleInputs, person \in People :
    /\ reqs[p] = Idle
    /\ reqs' = [reqs EXCEPT ![p] =
         IF ~valid_role(Lower(role_in))
         THEN RegState("done", Lower(role_in), person, None, 400, None)
         ELSE RegState("lookup", Lower(role_in), person, None, 0, None)]
    /\ UNCHANGED <<store, resp, history>>

\* if get_user_by_email(role, req.email): raise 409 (lines 88-89)
RegLookup(p) ==
  /\ reqs[p].pc = "lookup"
  /\ reqs' = [reqs EXCEPT ![p].pc =
       IF get_user_by_email(reqs[p].role, reqs[p].email, patient, doctor) # NoDoc
       THEN "done" ELSE "insert",
                          ![p].status =
       IF get_user_by_email(reqs[p].role, reqs[p].email, patient, doctor) # NoDoc
       THEN 409 ELSE 0]
  /\ UNCHANGED <<store, resp, history>>

\* user_id = create_document(role, doc) (lines 91-97)
RegInsertUser(p) ==
  LET r == reqs[p] IN
  /\ r.pc = "insert"
  /\ Len(patient) + Len(doctor) < MaxUsers
  /\ patient' = RegisterPatients(r.role, r.name, r.email, r.password, patient)
  /\ doctor' = RegisterDoctors(r.role, r.name, r.email, r.password, doctor)
  /\ reqs' = [reqs EXCEPT ![p].pc = "session",
                          ![p].user_id = RegisterUserId(r.role, patient, doctor)]
  /\ UNCHANGED <<session, assessment, feedback, resp, history>>

\* token = create_session(user_id, role); return (lines 99-100)
RegCreateSession(p) ==
  LET r == reqs[p] IN
  /\ r.pc = "session"
  /\ Len(session) < MaxSessions
  /\ session' = create_session(session, r.user_id, r.role)
  /\ reqs' = [reqs EXCEPT ![p].pc = "done", ![p].status = 200,
                          ![p].token = created_token(session')]
  /\ issued' = issued \cup {SessionDoc(r.user_id, r.role, created_token(session'))}
  /\ registered' = registered \cup {<<r.role, r.email>>}
  /\ UNCHANGED <<patient, doctor, assessment, feedback, resp>>

\* The response is sent; the process takes its next request.
RegReturn(p) ==
  /\ reqs[p].pc = "done"
  /\ reqs' = [reqs EXCEPT ![p] = Idle]
  /\ UNCHANGED <<store, resp, history>>

ConcNext ==
  \E p \in Procs :
    \/ RegStart(p)
    \/ RegLookup(p)
    \/ RegInsertUser(p)
    \/ RegCreateSession(p)
    \/ RegReturn(p)

ConcSpec == Init /\ [][ConcNext]_vars

----------------------------------------------------------------------------
(* ScoreSpec: /predict on every feature vector of the grid, on the         *)
(* thresholds and on floats at the ends of the range, from the empty       *)
(* store, by a caller that names itself with a user_id.                    *)

\* Feature vectors whose probability is a threshold: all 0.33, all 0.66.
BoundaryVectors == {AllFeatures(LowBelow), AllFeatures(ModerateBelow)}

\* Floats at the ends of the range a feature can take: the largest finite
\* float, the smallest positive float, a subnormal (about 1e-320), the
\* infinities and NaN.
FMax == [s |-> 0, m |-> BSub(BShl(<<1>>, SigBits), <<1>>), e |-> EMax]
FTiny == [s |-> 0, m |-> <<1>>, e |-> EMin]
FSub == [s |-> 0, m |-> BFromInt(2024), e |-> EMin]
ExtremeValues == {FMax, FTiny, FSub, FInf(0), FInf(1), FNaN}

\* Feature vectors of such floats: all five alike, and vectors that mix the
\* two infinities or the largest floats of both signs.
ExtremeVectors ==
  {AllFeatures(v) : v \in ExtremeValues}
    \cup {Features(FInf(0), FInf(1), F0, F0, F0),
          Features(FMax, FMax, FMax, FMax, [FMax EXCEPT !.s = 1]),
          Features(FSub, [FSub EXCEPT !.s = 1], FTiny, F1, F0)}

ScoreInputs == ScoreGrid \cup BoundaryVectors \cup ExtremeVectors

ScorePredict ==
  \E features \in ScoreInputs :
    /\ Ready
    /\ assessment = <<>>
    /\ predict(None, "ghost", features, None)
    /\ UNCHANGED reqs

ScoreNext == ScorePredict

ScoreSpec == Init /\ [][ScoreNext]_vars

----------------------------------------------------------------------------
(* Properties *)

Roles == {"patient", "doctor"}
OtherRole(role) == IF role = "patient" THEN "doctor" ELSE "patient"

\* The positions of the documents of a collection that hold v in field k.
Holding(coll, k, v) == {i \in 1..Len(coll) : coll[i][k] = v}

\* C1: in every reachable state, also when several register requests run
\* concurrently and their store calls interleave, no two user documents of
\* the same role collection have the same email.
C1_UniqueEmailPerRole ==
  /\ \A e \in Emails : Cardinality(Holding(patient, "email", e)) <= 1
  /\ \A e \in Emails : Cardinality(Holding(doctor, "email", e)) <= 1

\* C2: once register succeeded for (role, email), a later register with the
\* same email and role answers 409 and writes no document; with the same
\* email under the other role it succeeds and adds a user to that other
\* role's collection only.
C2_RegisterAgain ==
  [][(Ready /\ resp'.op = "register" /\ Lower(resp'.req.role) \in Roles) =>
       LET role == Lower(resp'.req.role)
           email == resp'.req.email
           mine == UserColl(role, patient, doctor)
           mine2 == UserColl(role, patient', doctor')
       IN IF <<role, email>> \in registered
          THEN resp'.status = 409 /\ UNCHANGED store
          ELSE <<OtherRole(role), email>> \in registered =>
                 /\ resp'.status = 200
                 /\ Len(mine2) = Len(mine) + 1
                 /\ mine2[Len(mine2)].email = email
                 /\ mine2[Len(mine2)]._id = resp'.body.user_id
                 /\ UserColl(OtherRole(role), patient', doctor')
                      = UserColl(OtherRole(role), patient, doctor)]_vars

\* A register was refused with 409 while its email is registered under both roles.
C2_Witness ==
  /\ resp.op = "register"
  /\ resp.status = 409
  /\ <<"patient", resp.req.email>> \in registered
  /\ <<"doctor", resp.req.email>> \in registered

\* C3: every token a successful register or login returned is held by exactly
\* one session, whose user_id and role are the ones returned with the token;
\* no two sessions hold the same token.
C3_TokenResolves ==
  /\ \A t \in issued :
       /\ Cardinality(Holding(session, "token", t.token)) = 1
       /\ \A i \in Holding(session, "token", t.token) :
            session[i].user_id = t.user_id /\ session[i].role = t.role
  /\ \A i, j \in 1..Len(session) : session[i].token = session[j].token => i = j
  /\ (resp.op \in {"register", "login"} /\ resp.status = 200) =>
       /\ Cardinality(Holding(session, "token", resp.body.token)) = 1
       /\ \A i \in Holding(session, "token", resp.body.token) :
            session[i].user_id = resp.body.user_id /\ session[i].role = resp.body.role

\* A login succeeded for a user who holds an earlier session as well.
C3_Witness ==
  /\ resp.op = "login"
  /\ resp.status = 200
  /\ Cardinality(Holding(session, "user_id", resp.body.user_id)) >= 2
  /\ Cardinality({t \in issued : t.user_id = resp.body.user_id}) >= 2

\* The credentials match a user document of the collection.
Credentials(coll, email, password) ==
  \E i \in 1..Len(coll) :
    coll[i].email = email /\ coll[i].password_hash = hash_password(password)

\* C4: a login answers 401 and creates no session when the role's collection
\* has no user with the email or the stored digest is not the password's,
\* also when email and password are right for the other role.
C4_LoginRejects ==
  [][(/\ Ready
      /\ resp'.op = "login"
      /\ Lower(resp'.req.role) \in Roles
      /\ ~Credentials(UserColl(Lower(resp'.req.role), patient, doctor),
                      resp'.req.email, resp'.req.password))
       => resp'.status = 401 /\ UNCHANGED store /\ UNCHANGED issued]_vars

\* A login was refused with the email and password of a user of the other role.
C4_Witness ==
  /\ resp.op = "login"
  /\ resp.status = 401
  /\ Lower(resp.req.role) \in Roles
  /\ Credentials(UserColl(OtherRole(Lower(resp.req.role)), patient, doctor),
                 resp.req.email, resp.req.password)

\* C5: the patient listing returns exactly the assessments whose patient_id
\* is the user_id of the token's session: none of another patient, none
\* stored as "unknown", none missing, none twice.
C5_OwnAssessmentsOnly ==
  (resp.op = "patient_assessments" /\ resp.status = 200) =>
    /\ Holding(session, "token", resp.req.token) # {}
    /\ \A i \in Holding(session, "token", resp.req.token) :
         LET uid == session[i].user_id
             items == resp.body.items
         IN /\ {items[j] : j \in 1..Len(items)}
                 = {assessment[k] : k \in Holding(assessment, "patient_id", uid)}
            /\ Len(items) = Cardinality(Holding(assessment, "patient_id", uid))
            /\ \A j \in 1..Len(items) :
                 items[j].patient_id = uid /\ items[j].patient_id # "unknown"

\* A patient listed some assessments while the store holds others as well.
C5_Witness ==
  /\ resp.op = "patient_assessments"
  /\ resp.status = 200
  /\ Len(resp.body.items) >= 1
  /\ Len(assessment) > Len(resp.body.items)

GatedOps == {"patient_assessments", "doctor_assessments", "doctor_feedback"}
RoleOf(op) == IF op = "patient_assessments" THEN "patient" ELSE "doctor"

\* C6: the doctor listing and doctor feedback answer 200 only for the token
\* of a doctor session, the patient listing only for the token of a patient
\* session; any other token gets 401 without data and nothing is written.
C6_RoleGate ==
  [][(Ready /\ resp'.op \in GatedOps) =>
       IF \E i \in Holding(session, "token", resp'.req.token) :
            session[i].role = RoleOf(resp'.op)
       THEN resp'.status = 200
       ELSE resp'.status = 401 /\ resp'.body = Unauthorized /\ UNCHANGED store]_vars

\* Feedback was refused to the token of a patient session.
C6_Witness ==
  /\ resp.op = "doctor_feedback"
  /\ resp.status = 401
  /\ \E i \in Holding(session, "token", resp.req.token) : session[i].role = "patient"

Absent == {None, ""}

\* C7: /predict with neither a token nor a user_id answers 401
\* "Authentication required" and stores no assessment; with one of them it
\* answers 200 and stores one, also when no session holds the token.
C7_PredictAuth ==
  [][(Ready /\ resp'.op = "predict") =>
       IF resp'.req.token \in Absent /\ resp'.req.user_id \in Absent
       THEN /\ resp'.status = 401
            /\ resp'.body = [detail |-> "Authentication required"]
            /\ UNCHANGED store
       ELSE /\ resp'.status = 200
            /\ Len(assessment') = Len(assessment) + 1]_vars

\* /predict succeeded with only a token that no session holds.
C7_Witness ==
  /\ resp.op = "predict"
  /\ resp.status = 200
  /\ resp.req.user_id \in Absent
  /\ resp.req.token \notin Absent
  /\ Holding(session, "token", resp.req.token) = {}
  /\ Holding(assessment, "_id", resp.body.assessment_id) # {}

\* C8: /predict with a token and no user_id stores the user_id of the token's
\* session as patient_id when that session is a patient's, and "unknown"
\* when it is a doctor's or no session holds the token.
C8_PatientIdFromToken ==
  (/\ resp.op = "predict"
   /\ resp.status = 200
   /\ resp.req.token \notin Absent
   /\ resp.req.user_id \in Absent) =>
    /\ Holding(assessment, "_id", resp.body.assessment_id) # {}
    /\ \A k \in Holding(assessment, "_id", resp.body.assessment_id) :
         LET mine == {i \in Holding(session, "token", resp.req.token) :
                        session[i].role = "patient"}
         IN IF mine # {}
            THEN \A i \in mine : assessment[k].patient_id = session[i].user_id
            ELSE assessment[k].patient_id = "unknown"

\* The token of a patient session put that patient's id on the assessment.
C8_Witness ==
  /\ resp.op = "predict"
  /\ resp.status = 200
  /\ resp.req.user_id \in Absent
  /\ \E i \in Holding(session, "token", resp.req.token),
        k \in Holding(assessment, "_id", resp.body.assessment_id) :
       /\ session[i].role = "patient"
       /\ assessment[k].patient_id = session[i].user_id
  /\ \E k \in 1..Len(assessment) : assessment[k].patient_id = "unknown"

\* C9: a successful /predict returns the probability and label every earlier
\* assessment with the same features got, whoever asked and whatever the
\* store held; it adds exactly one assessment, under an id no earlier
\* assessment has, holding the request's features and the returned values.
C9_Repeatable ==
  [][(Ready /\ resp'.op = "predict" /\ resp'.status = 200) =>
       LET n == Len(assessment)
           new == assessment'[n + 1]
       IN /\ Len(assessment') = n + 1
          /\ SubSeq(assessment', 1, n) = assessment
          /\ new._id = resp'.body.assessment_id
          /\ Holding(assessment, "_id", new._id) = {}
          /\ new.features = resp'.req.features
          /\ new.probability = resp'.body.probability
          /\ new.result_label = resp'.body.label
          /\ \A i \in 1..n :
               assessment[i].features = resp'.req.features =>
                 /\ assessment[i].probability = resp'.body.probability
                 /\ assessment[i].result_label = resp'.body.label]_vars

\* Two assessments with the same features were stored for different callers.
C9_Witness ==
  /\ resp.op = "predict"
  /\ resp.status = 200
  /\ \E i, j \in 1..Len(assessment) :
       /\ i # j
       /\ assessment[i].features = assessment[j].features
       /\ assessment[i].patient_id # assessment[j].patient_id
       /\ assessment[i].probability = assessment[j].probability
       /\ assessment[i]._id # assessment[j]._id

\* The weights as the float literals of the source.
W18 == FromDecimal(0, 18, 100)
W22 == FromDecimal(0, 22, 100)
W20 == FromDecimal(0, 20, 100)

\* The weighted sum in float arithmetic, term by term in the order of the keys.
FloatSum(f) ==
  FAdd(FAdd(FAdd(FAdd(FAdd(F0, FMul(f.eye_contact, W18)),
                      FMul(f.speech_delay, W22)),
                 FMul(f.repetitive_behavior, W22)),
            FMul(f.sensory_sensitivity, W20)),
       FMul(f.social_interaction_difficulty, W18))

\* t clamped to [0,1]: 1 above 1, 0 below 0, t itself otherwise.
Clamp01(t) == IF FLt(F1, t) THEN F1 ELSE IF FLt(t, F0) THEN F0 ELSE t

\* The exact weighted sum of a grid vector, clamped, in units of 1/400.
QuarterTable == [k \in GridQuarters |-> FromQuarters(k)]
QuartersOf(v) == CHOOSE k \in GridQuarters : QuarterTable[k] = v
ExactSum400(f) ==
  18 * QuartersOf(f.eye_contact) + 22 * QuartersOf(f.speech_delay)
    + 22 * QuartersOf(f.repetitive_behavior) + 20 * QuartersOf(f.sensory_sensitivity)
    + 18 * QuartersOf(f.social_interaction_difficulty)
ExactClamped400(f) ==
  IF ExactSum400(f) > 400 THEN 400 ELSE IF ExactSum400(f) < 0 THEN 0 ELSE ExactSum400(f)

\* |x - c/400| <= 2^-51 for a float x >= 0.
Near400(x, c) ==
  IF FIsZero(x) THEN c = 0
  ELSE LET lhs == BNorm(BMulSmall(x.m, 400, 0))
           rhs == BShl(BFromInt(c), 0 - x.e)
           tol == BShl(BFromInt(400), 0 - x.e - 51)
       IN /\ x.s = 0
          /\ 0 - x.e >= 51
          /\ IF BCmp(lhs, rhs) >= 0 THEN BCmp(BSub(lhs, rhs), tol) <= 0
                                    ELSE BCmp(BSub(rhs, lhs), tol) <= 0

\* C10: for every feature vector, values outside [0,1] included, the
\* probability /predict returns and stores is the float weighted sum with
\* weights 0.18, 0.22, 0.22, 0.20, 0.18 clamped to [0,1] (on the grid within
\* 2^-51 of the exact clamped sum); the stored score is that probability and
\* both lie in [0,1]; all features 1 give 1.0, all 0 give 0.0, all 0.5 give 0.5.
\* It fails where the weighted sum is not a number (a NaN feature, or
\* infinite features of both signs): the probability is then 1.0.
C10_ClampedWeightedSum ==
  (resp.op = "predict" /\ resp.status = 200) =>
    /\ Holding(assessment, "_id", resp.body.assessment_id) # {}
    /\ \A k \in Holding(assessment, "_id", resp.body.assessment_id) :
         LET f == resp.req.features
             prob == resp.body.probability
         IN /\ assessment[k].probability = prob
            /\ assessment[k].score = prob
            /\ prob = Clamp01(FloatSum(f))
            /\ ~FLt(prob, F0) /\ ~FLt(F1, prob)
            /\ f \in ScoreGrid => Near400(prob, ExactClamped400(f))
            /\ f = AllFeatures(F1) => prob = F1
            /\ f = AllFeatures(F0) => prob = F0
            /\ f = AllFeatures(Half) => prob = Half

\* x < c/100 as real numbers, for a float x >= 0.
ExactLt100(x, c) ==
  IF FIsZero(x) THEN 0 < c
  ELSE IF x.e >= 0
       THEN BCmp(BShl(BNorm(BMulSmall(x.m, 100, 0)), x.e), BFromInt(c)) < 0
       ELSE BCmp(BNorm(BMulSmall(x.m, 100, 0)), BShl(BFromInt(c), 0 - x.e)) < 0

Labels == {"Low Risk", "Moderate Risk", "High Risk"}

\* C11: every probability gets exactly one of the three labels: "Low Risk"
\* iff it is below 0.33, "Moderate Risk" iff it is at least 0.33 and below
\* 0.66, "High Risk" iff it is at least 0.66; the probabilities 0.33 and 0.66
\* themselves are Moderate and High; the stored result_label is that label.
C11_LabelPartition ==
  (resp.op = "predict" /\ resp.status = 200) =>
    /\ Holding(assessment, "_id", resp.body.assessment_id) # {}
    /\ \A k \in Holding(assessment, "_id", resp.body.assessment_id) :
         LET prob == resp.body.probability
             label == resp.body.label
         IN /\ assessment[k].result_label = label
            /\ assessment[k].probability = prob
            /\ label \in Labels
            /\ label = "Low Risk" <=> ExactLt100(prob, 33)
            /\ label = "Moderate Risk" <=> ~ExactLt100(prob, 33) /\ ExactLt100(prob, 66)
            /\ label = "High Risk" <=> ~ExactLt100(prob, 66)
            /\ prob = FromDecimal(0, 33, 100) => label = "Moderate Risk"
            /\ prob = FromDecimal(0, 66, 100) => label = "High Risk"

\* The probability 0.33 itself was labelled Moderate.
C11_Witness ==
  /\ resp.op = "predict"
  /\ resp.status = 200
  /\ resp.body.probability = FromDecimal(0, 33, 100)
  /\ resp.body.label = "Moderate Risk"
  /\ \E k \in 1..Len(assessment) : assessment[k].result_label = "Moderate Risk"

\* C12: feedback with the token of a doctor session answers 200 whether or
\* not assessment_id names a stored assessment; it adds exactly one feedback
\* document, with the session's user_id as doctor_id and the given
\* assessment_id, and returns its id, which no earlier feedback has.
C12_FeedbackStored ==
  [][(/\ Ready
      /\ resp'.op = "doctor_feedback"
      /\ \E i \in Holding(session, "token", resp'.req.token) : session[i].role = "doctor")
       => LET n == Len(feedback)
              new == feedback'[n + 1]
          IN /\ resp'.status = 200
             /\ Len(feedback') = n + 1
             /\ SubSeq(feedback', 1, n) = feedback
             /\ new._id = resp'.body.feedback_id
             /\ Holding(feedback, "_id", new._id) = {}
             /\ new.assessment_id = resp'.req.assessment_id
             /\ new.message = resp'.req.message
             /\ \A i \in Holding(session, "token", resp'.req.token) :
                  new.doctor_id = session[i].user_id
             /\ UNCHANGED <<patient, doctor, session, assessment>>]_vars

\* Feedback was stored for an assessment_id that no assessment has.
C12_Witness ==
  /\ resp.op = "doctor_feedback"
  /\ resp.status = 200
  /\ Holding(assessment, "_id", resp.req.assessment_id) = {}
  /\ \E k \in Holding(feedback, "_id", resp.body.feedback_id) :
       feedback[k].assessment_id = resp.req.assessment_id

\* What a lookup of the token finds: the user_id and role of the first
\* session holding it, <<>> when no session does.
SessionOf(sess, t) ==
  IF Holding(sess, "token", t) = {} THEN <<>>
  ELSE LET i == CHOOSE i \in Holding(sess, "token", t) :
                  \A j \in Holding(sess, "token", t) : i <= j
       IN <<sess[i].user_id, sess[i].role>>

\* C13: a token that resolves to a session with some user_id and role
\* resolves to the same user_id and role after every further operation; a
\* login adds one session under a new token and leaves the earlier sessions.
C13_SessionsPermanent ==
  [][/\ \A i \in 1..Len(session) :
          /\ SessionOf(session', session[i].token) = SessionOf(session, session[i].token)
          /\ Len(session') >= i
          /\ session'[i] = session[i]
     /\ (Ready /\ resp'.op = "login" /\ resp'.status = 200) =>
          /\ Len(session') = Len(session) + 1
          /\ Holding(session, "token", resp'.body.token) = {}
          /\ SessionOf(session', resp'.body.token)
               = <<resp'.body.user_id, resp'.body.role>>]_vars

\* A user logged in again and the token of an earlier session still
\* resolves to that user.
C13_Witness ==
  /\ resp.op = "login"
  /\ resp.status = 200
  /\ \E i \in 1..Len(session) :
       /\ session[i].token # resp.body.token
       /\ session[i].user_id = resp.body.user_id
       /\ SessionOf(session, session[i].token) = <<resp.body.user_id, resp.body.role>>
  /\ \E j \in 1..Len(assessment) : assessment[j].patient_id = resp.body.user_id

\* C14: in every reachable state every assessment whose patient_id is not
\* "unknown" has the id of a stored patient document as patient_id, however
\* /predict was called (token, user_id or both).
C14_PatientIdIsPatient ==
  \A k \in 1..Len(assessment) :
    assessment[k].patient_id # "unknown" =>
      Holding(patient, "_id", assessment[k].patient_id) # {}

\* C15: when a store write fails during an operation, the operation fails
\* and the store holds no document the operation wrote; a register whose
\* session write fails leaves no user document with its email behind.
C15_FailedWriteLeavesNothing ==
  [][(Ready /\ resp'.status = StorageError) =>
       /\ UNCHANGED store
       /\ resp'.op = "register" =>
            Holding(UserColl(Lower(resp'.req.role), patient', doctor'),
                    "email", resp'.req.email) = {}]_vars

\* C16: in every reachable state every session has role patient or doctor
\* and its user_id is the id of a user document of the collection of that
\* role, and of no document of the other collection.
C16_SessionRoleMatchesUser ==
  \A i \in 1..Len(session) :
    /\ session[i].role \in Roles
    /\ session[i].role = "patient" =>
         /\ Holding(patient, "_id", session[i].user_id) # {}
         /\ Holding(doctor, "_id", session[i].user_id) = {}
    /\ session[i].role = "doctor" =>
         /\ Holding(doctor, "_id", session[i].user_id) # {}
         /\ Holding(patient, "_id", session[i].user_id) = {}

\* A login added a session while sessions of both roles are stored.
C16_Witness ==
  /\ resp.op = "login"
  /\ resp.status = 200
  /\ Holding(session, "role", "patient") # {}
  /\ Holding(session, "role", "doctor") # {}
  /\ Holding(session, "token", resp.body.token) # {}

\* Two characters are one letter, in the same or in different case.
SameLetter(c, d) ==
  \/ c = d
  \/ \E i \in 1..Len(ascii_lowercase) :
       {c, d} = {SubSeq(ascii_lowercase, i, i), SubSeq(ascii_uppercase, i, i)}

\* The string r spells the lower-case word w, in any mix of cases.
Spells(r, w) ==
  /\ Len(r) = Len(w)
  /\ \A i \in 1..Len(w) : SameLetter(SubSeq(r, i, i), SubSeq(w, i, i))

\* The role string is patient or doctor once converted to lower case.
LowerCased(r) == \E w \in Roles : Spells(r, w)

AuthOps == {"register", "login"}

\* C17 as stated: register and login answer 400 and write nothing whenever
\* the supplied role is not one of the strings patient or doctor.
C17_RoleStringValidated ==
  [][(Ready /\ resp'.op \in AuthOps /\ resp'.req.role \notin Roles) =>
       resp'.status = 400 /\ UNCHANGED store]_vars

\* C17 amended: register and login answer 400 and write nothing whenever the
\* supplied role in lower case is not patient or doctor, whether or not the
\* email is registered (the role is checked before the email is looked up);
\* a role that is patient or doctor in lower case is not refused with 400.
C17_LowerCasedRoleValidated ==
  [][(Ready /\ resp'.op \in AuthOps) =>
       IF ~LowerCased(resp'.req.role)
       THEN resp'.status = 400 /\ UNCHANGED store /\ UNCHANGED history
       ELSE resp'.status # 400]_vars

\* A register with role nurse was refused with 400 although its email is
\* registered in the collection a lookup for that role would read.
C17_Witness ==
  /\ resp.op = "register"
  /\ resp.status = 400
  /\ resp.req.role = "nurse"
  /\ Holding(doctor, "email", resp.req.email) # {}

\* C18: no operation modifies or deletes a stored assessment; reviewed_by
\* and feedback_id are unset on every assessment in every state, also after
\* feedback that names the assessment has been stored.
C18_AssessmentsImmutable ==
  [][/\ Len(assessment') >= Len(assessment)
     /\ \A i \in 1..Len(assessment) : assessment'[i] = assessment[i]
     /\ \A i \in 1..Len(assessment') :
          assessment'[i].reviewed_by = None /\ assessment'[i].feedback_id = None]_vars

\* Feedback naming a stored assessment was stored; the assessment is unlinked.
C18_Witness ==
  /\ resp.op = "doctor_feedback"
  /\ resp.status = 200
  /\ \E k \in Holding(assessment, "_id", resp.req.assessment_id),
        j \in Holding(feedback, "assessment_id", resp.req.assessment_id) :
       /\ assessment[k].reviewed_by = None
       /\ assessment[k].feedback_id = None

\* C19: the doctor listing with the token of a doctor session returns every
\* stored assessment, each once, of every patient and of "unknown", and
\* leaves the store unchanged.
C19_DoctorSeesAll ==
  [][(/\ Ready
      /\ resp'.op = "doctor_assessments"
      /\ \E i \in Holding(session, "token", resp'.req.token) : session[i].role = "doctor")
       => /\ resp'.status = 200
          /\ {resp'.body.items[j] : j \in 1..Len(resp'.body.items)}
               = {assessment[k] : k \in 1..Len(assessment)}
          /\ Len(resp'.body.items) = Len(assessment)
          /\ UNCHANGED store]_vars

\* A doctor listed an assessment of a patient and one of "unknown".
C19_Witness ==
  /\ resp.op = "doctor_assessments"
  /\ resp.status = 200
  /\ \E j \in 1..Len(resp.body.items) : resp.body.items[j].patient_id = "unknown"
  /\ \E j \in 1..Len(resp.body.items) :
       Holding(patient, "_id", resp.body.items[j].patient_id) # {}

\* C20: /predict with both a token and a user_id stores the user_id as
\* patient_id, whatever the token: of that patient, of another patient, of a
\* doctor, or of no session.
C20_UserIdDecides ==
  (/\ resp.op = "predict"
   /\ resp.status = 200
   /\ resp.req.token \notin Absent
   /\ resp.req.user_id \notin Absent) =>
    /\ Holding(assessment, "_id", resp.body.assessment_id) # {}
    /\ \A k \in Holding(assessment, "_id", resp.body.assessment_id) :
         assessment[k].patient_id = resp.req.user_id

\* The token of one patient's session came with the user_id of another user.
C20_Witness ==
  /\ resp.op = "predict"
  /\ resp.status = 200
  /\ resp.req.user_id \notin Absent
  /\ \E i \in Holding(session, "token", resp.req.token) :
       session[i].role = "patient" /\ session[i].user_id # resp.req.user_id
  /\ \E k \in Holding(assessment, "_id", resp.body.assessment_id) :
       assessment[k].patient_id = resp.req.user_id

====
